---- MODULE Spec2Model ----
(***************************************************************************)
(* handler.py: the RunPod job handler of the VOICEVOX engine.              *)
(*                                                                         *)
(* handler() and initialize_engine() are coroutines (async def) run as     *)
(* tasks of one asyncio event loop.  A task keeps the loop until it        *)
(* suspends or finishes; neither coroutine contains an await that          *)
(* suspends (the only await, line 117, awaits initialize_engine, whose     *)
(* body has no await at all), so a started task runs to its end.           *)
(* `running` is the task that holds the loop.                              *)
(*                                                                         *)
(* Numbers are kept in tenths (1.0 is 10, 0.1 is 1) so that the code's     *)
(* float defaults are integers of the model.                               *)
(***************************************************************************)
EXTENDS Integers, Sequences, FiniteSets, TLC

\* ---------------------------------------------------------------- bounds
NumTasks == 2        \* tasks that can be in flight in the process
MaxCalls == 3        \* handler / initialize_engine calls made in a run

Tasks == 1..NumTasks

\* ------------------------------------------------------ Python values
NoneV == [t |-> "None"]
Str(s) == [t |-> "str", s |-> s]
Num(n) == [t |-> "num", n |-> n]
Bool(b) == [t |-> "bool", b |-> b]

Ok(v) == [ok |-> TRUE, v |-> v]
Err(type, msg) == [ok |-> FALSE, type |-> type, msg |-> msg]

\* truncation toward zero of a number kept in tenths
Trunc(n) == IF n >= 0 THEN (n \div 10) * 10 ELSE 0 - (((0 - n) \div 10) * 10)

\* int(x), line 126
PyInt(v) ==
    CASE v.t = "num" -> Ok(Num(Trunc(v.n)))
      [] v.t = "bool" -> Ok(Num(IF v.b THEN 10 ELSE 0))
      [] v.t = "str" ->
            IF v.s = "3" THEN Ok(Num(30))
            ELSE Err("ValueError", "invalid literal for int()")
      [] OTHER -> Err("TypeError", "int() argument must be a string or a number")

\* float(x), lines 147-152
PyFloat(v) ==
    CASE v.t = "num" -> Ok(Num(v.n))
      [] v.t = "bool" -> Ok(Num(IF v.b THEN 10 ELSE 0))
      [] v.t = "str" ->
            IF v.s = "3" THEN Ok(Num(30))
            ELSE IF v.s = "1.5" THEN Ok(Num(15))
            ELSE Err("ValueError", "could not convert string to float")
      [] OTHER -> Err("TypeError", "float() argument must be a string or a number")

\* truth value of an object, line 123 (`not text`)
Truthy(v) ==
    CASE v.t = "None" -> FALSE
      [] v.t = "str" -> v.s # ""
      [] v.t = "num" -> v.n # 0
      [] v.t = "bool" -> v.b
      [] OTHER -> TRUE

\* dict.get(key, default)
Get(d, k, default) == IF k \in DOMAIN d THEN d[k] ELSE default

\* ------------------------------------------------------------- inputs
EmptyDict == [k \in {} |-> NoneV]

TextChoices == {EmptyDict, "text" :> Str(""), "text" :> Str("hello")}
SpeakerChoices == {EmptyDict, "speaker_id" :> Num(30), "speaker_id" :> Num(27),
                   "speaker_id" :> Str("abc")}
ScaleKeys == <<"speed_scale", "pitch_scale", "intonation_scale", "volume_scale",
               "pre_phoneme_length", "post_phoneme_length">>
\* (a pitch default of 1.0, as if pitch were a factor like the others)
PitchDefaultOne == <<10, 10, 10, 10, 1, 1>>

ScaleDefaults == <<10, 0, 10, 10, 1, 1>>

OptionChoices ==
    {ScaleKeys[i] :> v : i \in 1..Len(ScaleKeys), v \in {Num(15), Str("abc")}}
    \cup {k :> Bool(FALSE) : k \in {"enable_katakana_english", "enable_interrogative_upspeak"}}

\* the job inputs of the model: text and speaker_id each absent or present;
\* a text with a usable speaker_id and one of the other fields; a malformed
\* field without a text
Inputs ==
    {t @@ s : t \in TextChoices, s \in SpeakerChoices}
    \cup {"text" :> Str("hello") @@ s @@ o :
             s \in {EmptyDict, "speaker_id" :> Num(30)}, o \in OptionChoices}
    \cup {"speed_scale" :> Str("abc"), "text" :> Str("") @@ "speed_scale" :> Str("abc")}
    \cup {"text" :> Str("hello") @@ "speed_scale" :> Str("1.5")}

\* a job is a dict; job.get("input", {}) also covers a job without the key
Jobs == {EmptyDict} \cup {"input" :> i : i \in Inputs}

\* --------------------------------------------- collaborators' outcomes
\* str(e) of an exception raised by a collaborator; an exception built
\* without arguments has the empty string
ExcMsgs == {"engine error", ""}

\* create_accent_phrases returns a list of accent phrases, possibly empty
PhraseChoices == {<< >>, <<"phrase">>}

\* synthesize_wave returns a buffer of float samples (in tenths), or, with
\* another facade, bytes that are already an audio container
RawWave(samples) == [t |-> "ndarray", data |-> samples]
EncodedWave(bytes) == [t |-> "bytes", data |-> bytes]
WaveChoices == {RawWave(<<0, 0>>), RawWave(<<5, -20>>), EncodedWave(<<"RIFF">>)}

\* ------------------------------------------------------------ encoding
SAMPLING_RATE == 24000

\* one float sample (tenths) as 16-bit PCM: scaled, clipped to the range
Pcm16(x) ==
    LET v == (x * 32767) \div 10
    IN IF v > 32767 THEN 32767 ELSE IF v < -32768 THEN -32768 ELSE v

\* (an encoder that hands bytes on as they are)
SfWriteOrPassThrough(wave) ==
    IF wave.t = "ndarray"
    THEN Ok(<<"RIFF", "WAVE", 24000, 16, 1>>
            \o [i \in 1..Len(wave.data) |-> Pcm16(wave.data[i])])
    ELSE Ok(wave.data)

\* sf.write(buffer, wave_data, 24000, format='WAV', subtype='PCM_16'), line 174:
\* a header followed by the samples; data that is no sample array is refused
SfWrite(wave) ==
    IF wave.t = "ndarray"
    THEN Ok(<<"RIFF", "WAVE", SAMPLING_RATE, 16, 1>>
            \o [i \in 1..Len(wave.data) |-> Pcm16(wave.data[i])])
    ELSE Err("IndexError", "tuple index out of range")

\* base64.b64encode(wav_bytes).decode("utf-8"), line 177: four characters
\* for every three bytes
B64Encode(bytes) == [t |-> "b64", len |-> 4 * ((Len(bytes) + 2) \div 3), of |-> bytes]

\* ----------------------------------------------------------- responses
MissingText == "Missing 'text' in input"

\* line 124
MissingTextResponse == "error" :> Str(MissingText)

\* lines 179-183
SuccessResponse(audio) ==
    "audio_base64" :> audio @@ "sampling_rate" :> Num(SAMPLING_RATE * 10)
    @@ "status" :> Str("success")

\* (a failure response without its status)
ErrorOnlyResponse(e) == "error" :> Str(e.msg)

\* line 189
FailedResponse(e) == "error" :> Str(e.msg) @@ "status" :> Str("failed")

\* ------------------------------------------------------------ AudioQuery
\* lines 145-155: the six coercions are evaluated in order; the first that
\* raises ends the construction
RECURSIVE FirstBadScale(_, _)
FirstBadScale(job_input, i) ==
    IF i > Len(ScaleKeys) THEN 0
    ELSE IF ~PyFloat(Get(job_input, ScaleKeys[i], Num(ScaleDefaults[i]))).ok THEN i
    ELSE FirstBadScale(job_input, i + 1)

ScaleOf(job_input, i) == PyFloat(Get(job_input, ScaleKeys[i], Num(ScaleDefaults[i])))

\* the default queries an engine could compute for a text and a style
\* (create_audio_query, the high-level operation the comment of lines
\* 130-133 speaks of): their scalar fields are the engine's choice and need
\* not be the literals of lines 147-152
DefaultQueryChoices ==
    {[speedScale |-> Num(10), pitchScale |-> Num(0), intonationScale |-> Num(10),
      volumeScale |-> Num(10), prePhonemeLength |-> Num(1), postPhonemeLength |-> Num(1)],
     [speedScale |-> Num(12), pitchScale |-> Num(1), intonationScale |-> Num(10),
      volumeScale |-> Num(8), prePhonemeLength |-> Num(2), postPhonemeLength |-> Num(1)]}

\* (a query taken from the engine's default query, with the fields of the
\* input laid over it)
AudioQueryOverDefault(accent_phrases, job_input) ==
    LET bad == FirstBadScale(job_input, 1)
        d == CHOOSE q \in DefaultQueryChoices : q.pitchScale # Num(0)
        Over(key, v) == IF key \in DOMAIN job_input THEN PyFloat(job_input[key]).v ELSE v
    IN IF bad # 0 THEN ScaleOf(job_input, bad)
       ELSE Ok([t |-> "AudioQuery",
                accent_phrases |-> accent_phrases,
                speedScale |-> Over("speed_scale", d.speedScale),
                pitchScale |-> Over("pitch_scale", d.pitchScale),
                intonationScale |-> Over("intonation_scale", d.intonationScale),
                volumeScale |-> Over("volume_scale", d.volumeScale),
                prePhonemeLength |-> Over("pre_phoneme_length", d.prePhonemeLength),
                postPhonemeLength |-> Over("post_phoneme_length", d.postPhonemeLength),
                outputSamplingRate |-> Num(SAMPLING_RATE * 10),
                outputStereo |-> Bool(FALSE)])

\* (a query that is refused when there is no accent phrase)
AudioQueryRejectsEmpty(accent_phrases, job_input) ==
    LET bad == FirstBadScale(job_input, 1)
    IN IF accent_phrases = << >> THEN Err("ValueError", "no accent phrases")
       ELSE IF bad # 0 THEN ScaleOf(job_input, bad)
       ELSE Ok([t |-> "AudioQuery",
                accent_phrases |-> accent_phrases,
                speedScale |-> ScaleOf(job_input, 1).v,
                pitchScale |-> ScaleOf(job_input, 2).v,
                intonationScale |-> ScaleOf(job_input, 3).v,
                volumeScale |-> ScaleOf(job_input, 4).v,
                prePhonemeLength |-> ScaleOf(job_input, 5).v,
                postPhonemeLength |-> ScaleOf(job_input, 6).v,
                outputSamplingRate |-> Num(SAMPLING_RATE * 10),
                outputStereo |-> Bool(FALSE)])

AudioQuery(accent_phrases, job_input) ==
    LET bad == FirstBadScale(job_input, 1)
    IN IF bad # 0 THEN ScaleOf(job_input, bad)
       ELSE Ok([t |-> "AudioQuery",
                accent_phrases |-> accent_phrases,
                speedScale |-> ScaleOf(job_input, 1).v,
                pitchScale |-> ScaleOf(job_input, 2).v,
                intonationScale |-> ScaleOf(job_input, 3).v,
                volumeScale |-> ScaleOf(job_input, 4).v,
                prePhonemeLength |-> ScaleOf(job_input, 5).v,
                postPhonemeLength |-> ScaleOf(job_input, 6).v,
                outputSamplingRate |-> Num(SAMPLING_RATE * 10),
                outputStereo |-> Bool(FALSE)])

\* ----------------------------------------------------------------- state
VARIABLES
    tts_engine,   \* the global of line 38: None, or the engine instance
    running,      \* the task that holds the event loop, 0 when it is free
    pc,           \* each task's position in its coroutine
    kind,         \* the coroutine a task runs: "handler" or "initialize_engine"
    job,          \* handler's argument
    loc,          \* handler's local variables
    exc,          \* the exception a task is raising
    result,       \* what the coroutine returns to its caller
    calls,        \* the collaborator operations a task has invoked, in order
    nCore,        \* CoreWrapper constructions started in the process
    nEngine,      \* TTSEngine instances constructed in the process
    nCalls,       \* coroutine calls made so far
    cold          \* whether a task's call was made while tts_engine was None

vars == <<tts_engine, running, pc, kind, job, loc, exc, result, calls,
          nCore, nEngine, nCalls, cold>>

\* the value of tts_engine before the first successful initialization, line 38
None == 0

NoLocals == [job_input |-> EmptyDict, text |-> NoneV, speaker_id |-> NoneV,
             accent_phrases |-> NoneV, audio_query |-> NoneV, wave_data |-> NoneV]

Call(op, engine, args) == [op |-> op, engine |-> engine, args |-> args]

Init ==
    /\ tts_engine = None
    /\ running = 0
    /\ pc = [j \in Tasks |-> "idle"]
    /\ kind = [j \in Tasks |-> "handler"]
    /\ job = [j \in Tasks |-> EmptyDict]
    /\ loc = [j \in Tasks |-> NoLocals]
    /\ exc = [j \in Tasks |-> NoneV]
    /\ result = [j \in Tasks |-> NoneV]
    /\ calls = [j \in Tasks |-> << >>]
    /\ nCore = 0
    /\ nEngine = 0
    /\ nCalls = 0
    /\ cold = [j \in Tasks |-> FALSE]

\* ------------------------------------------------------------ scheduling
\* the places of the coroutines where a task gives the loop back before it
\* ends: the await of line 117 runs initialize_engine inside the task, and
\* initialize_engine has no await, so there is none
\* (an initialization that awaits between its check and its assignment)
SuspendsInsideInit == {"user_dict"}

\* (a handler that awaits the synthesis, e.g. in an executor)
SuspendsAtSynthesis == {"synthesize"}

SuspendPoints == {}

\* the task goes on with pc p: it keeps the loop unless p is a suspend point
LoopAfter(j, p) == IF p \in SuspendPoints THEN 0 ELSE j

\* task j may take its next step
Runs(j) == running = j \/ (running = 0 /\ pc[j] \in SuspendPoints)

\* a caller creates a task for handler(job) or initialize_engine()
Submit(j, k) ==
    /\ pc[j] = "idle"
    /\ nCalls < MaxCalls
    /\ nCalls' = nCalls + 1
    /\ pc' = [pc EXCEPT ![j] = "scheduled"]
    /\ kind' = [kind EXCEPT ![j] = k]
    /\ cold' = [cold EXCEPT ![j] = (tts_engine = None)]
    /\ UNCHANGED <<tts_engine, running, job, loc, exc, result, calls, nCore, nEngine>>

\* the loop starts the task's coroutine: line 116 of handler, line 44 of
\* initialize_engine
Begin(j, jb) ==
    /\ pc[j] = "scheduled"
    /\ running = 0
    /\ running' = j
    /\ IF kind[j] = "handler"
       THEN /\ job' = [job EXCEPT ![j] = jb]
            /\ pc' = [pc EXCEPT ![j] = "warmup"]
       ELSE /\ jb = EmptyDict
            /\ job' = job
            /\ pc' = [pc EXCEPT ![j] = "init_check"]
    /\ UNCHANGED <<tts_engine, kind, loc, exc, result, calls, nCore, nEngine, nCalls, cold>>

\* task j goes on at p
Goto(j, p) ==
    /\ pc' = [pc EXCEPT ![j] = p]
    /\ running' = LoopAfter(j, p)

Invoke(j, op, engine, args) ==
    calls' = [calls EXCEPT ![j] = Append(@, Call(op, engine, args))]

\* ------------------------------------------------------ initialize_engine
\* (a warm-up that is attempted once per process)
WarmupOnce == tts_engine = None /\ nCore = 0

\* line 116, `if tts_engine is None`
NeedsWarmup == tts_engine = None

\* (an initialize_engine without the guard of line 44)
NeverInitialized == FALSE

\* line 44, `if tts_engine is not None`
AlreadyInitialized == tts_engine # None

\* initialize_engine returns tts_engine (lines 45 and 105): handler goes on
\* at line 119, a direct caller gets the handle
InitReturns(j, engine) ==
    IF kind[j] = "handler"
    THEN /\ Goto(j, "get_input")
         /\ result' = result
    ELSE /\ Goto(j, "return")
         /\ result' = [result EXCEPT ![j] = [t |-> "TTSEngine", id |-> engine]]

\* an exception of initialize_engine: nothing in it or around line 117
\* catches it, so it leaves the coroutine
\* (a warm-up whose exception is swallowed: handler goes on at line 119)
InitSwallows(j, e) ==
    /\ exc' = [exc EXCEPT ![j] = e]
    /\ Goto(j, IF kind[j] = "handler" THEN "get_input" ELSE "raise")

InitRaises(j, e) ==
    /\ exc' = [exc EXCEPT ![j] = e]
    /\ Goto(j, "raise")

\* lines 116-117
Warmup(j) ==
    /\ Runs(j) /\ pc[j] = "warmup"
    /\ IF NeedsWarmup THEN Goto(j, "init_check") ELSE Goto(j, "get_input")
    /\ UNCHANGED <<tts_engine, kind, job, loc, exc, result, calls, nCore, nEngine, nCalls, cold>>

\* lines 44-45
InitCheck(j) ==
    /\ Runs(j) /\ pc[j] = "init_check"
    /\ IF AlreadyInitialized
       THEN InitReturns(j, tts_engine)
       ELSE Goto(j, "core") /\ result' = result
    /\ UNCHANGED <<tts_engine, kind, job, loc, exc, calls, nCore, nEngine, nCalls, cold>>

\* lines 61-67, CoreWrapper(use_gpu=True, ...)
Core(j, ok) ==
    /\ Runs(j) /\ pc[j] = "core"
    /\ nCore' = nCore + 1
    /\ Invoke(j, "CoreWrapper", None, [use_gpu |-> TRUE, load_all_models |-> TRUE])
    /\ IF ok THEN Goto(j, "user_dict") /\ exc' = exc
       ELSE InitRaises(j, Err("RuntimeError", "core load failed"))
    /\ UNCHANGED <<tts_engine, kind, job, loc, result, nEngine, nCalls, cold>>

\* lines 75-77: UserDictManager(); a TypeError is caught and the same
\* call is made again (line 80), any other exception leaves the function
UserDict(j, outcome) ==
    /\ Runs(j) /\ pc[j] = "user_dict"
    /\ Invoke(j, "UserDictManager", None, << >>)
    /\ CASE outcome = "ok" -> Goto(j, "preset") /\ exc' = exc
         [] outcome = "TypeError" -> Goto(j, "user_dict_retry") /\ exc' = exc
         [] OTHER -> InitRaises(j, Err("OSError", "user dict unavailable"))
    /\ UNCHANGED <<tts_engine, kind, job, loc, result, nCore, nEngine, nCalls, cold>>

\* line 80, inside the except clause: nothing catches what it raises
UserDictRetry(j, ok) ==
    /\ Runs(j) /\ pc[j] = "user_dict_retry"
    /\ Invoke(j, "UserDictManager", None, << >>)
    /\ IF ok THEN Goto(j, "preset") /\ exc' = exc
       ELSE InitRaises(j, Err("TypeError", "missing required argument"))
    /\ UNCHANGED <<tts_engine, kind, job, loc, result, nCore, nEngine, nCalls, cold>>

\* lines 84-90: PresetManager is constructed with /app/presets.yaml when
\* the file exists and with presets.yaml when it does not
Preset(j, exists, ok) ==
    /\ Runs(j) /\ pc[j] = "preset"
    /\ Invoke(j, "PresetManager", None,
              [preset_path |-> IF exists THEN "/app/presets.yaml" ELSE "presets.yaml"])
    /\ IF ok THEN Goto(j, "engine") /\ exc' = exc
       ELSE InitRaises(j, Err("OSError", "preset unavailable"))
    /\ UNCHANGED <<tts_engine, kind, job, loc, result, nCore, nEngine, nCalls, cold>>

\* lines 93-105: tts_engine = TTSEngine(core=core); return tts_engine
Engine(j, ok) ==
    /\ Runs(j) /\ pc[j] = "engine"
    /\ Invoke(j, "TTSEngine", None, [core |-> nCore])
    /\ IF ok
       THEN /\ nEngine' = nEngine + 1
            /\ tts_engine' = nEngine + 1
            /\ InitReturns(j, nEngine + 1)
            /\ exc' = exc
       ELSE /\ InitRaises(j, Err("RuntimeError", "engine construction failed"))
            /\ UNCHANGED <<tts_engine, nEngine, result>>
    /\ UNCHANGED <<kind, job, loc, nCore, nCalls, cold>>

\* ----------------------------------------------------------------- handler
\* an exception raised inside the try of lines 128-183 reaches line 185
Caught(j, e) ==
    /\ exc' = [exc EXCEPT ![j] = e]
    /\ Goto(j, "except")

\* an exception raised outside the try leaves handler
Uncaught(j, e) ==
    /\ exc' = [exc EXCEPT ![j] = e]
    /\ Goto(j, "raise")

Returns(j, response) ==
    /\ result' = [result EXCEPT ![j] = response]
    /\ Goto(j, "return")

\* lines 119-124
GetInput(j) ==
    /\ Runs(j) /\ pc[j] = "get_input"
    /\ LET job_input == Get(job[j], "input", EmptyDict)
           text == Get(job_input, "text", NoneV)
       IN /\ loc' = [loc EXCEPT ![j].job_input = job_input, ![j].text = text]
          /\ IF ~Truthy(text)
             THEN Returns(j, MissingTextResponse)
             ELSE Goto(j, "speaker_id") /\ result' = result
    /\ UNCHANGED <<tts_engine, kind, job, exc, calls, nCore, nEngine, nCalls, cold>>

\* line 126, before the try
SpeakerId(j) ==
    /\ Runs(j) /\ pc[j] = "speaker_id"
    /\ LET r == PyInt(Get(loc[j].job_input, "speaker_id", Num(10)))
       IN IF r.ok
          THEN /\ loc' = [loc EXCEPT ![j].speaker_id = r.v]
               /\ Goto(j, "accent_phrases")
               /\ exc' = exc
          ELSE /\ Uncaught(j, r)
               /\ loc' = loc
    /\ UNCHANGED <<tts_engine, kind, job, result, calls, nCore, nEngine, nCalls, cold>>

\* the arguments handler passes to create_accent_phrases, lines 138-140
AccentArgs(j) ==
    [text |-> loc[j].text, style_id |-> loc[j].speaker_id,
     enable_katakana_english |->
        Get(loc[j].job_input, "enable_katakana_english", Bool(TRUE))]

\* lines 137-141: tts_engine.create_accent_phrases(...); on None the
\* attribute access raises
CreateAccentPhrases(j, out) ==
    /\ Runs(j) /\ pc[j] = "accent_phrases"
    /\ IF tts_engine = None
       THEN /\ Caught(j, Err("AttributeError",
                             "'NoneType' object has no attribute 'create_accent_phrases'"))
            /\ UNCHANGED <<loc, calls>>
       ELSE /\ Invoke(j, "create_accent_phrases", tts_engine, AccentArgs(j))
            /\ IF out.ok
               THEN /\ loc' = [loc EXCEPT ![j].accent_phrases = out.v]
                    /\ Goto(j, "audio_query")
                    /\ exc' = exc
               ELSE /\ Caught(j, out)
                    /\ loc' = loc
    /\ UNCHANGED <<tts_engine, kind, job, result, nCore, nEngine, nCalls, cold>>

\* lines 145-155
BuildAudioQuery(j) ==
    /\ Runs(j) /\ pc[j] = "audio_query"
    /\ LET q == AudioQuery(loc[j].accent_phrases, loc[j].job_input)
       IN IF q.ok
          THEN /\ loc' = [loc EXCEPT ![j].audio_query = q.v]
               /\ Goto(j, "synthesize")
               /\ exc' = exc
          ELSE /\ Caught(j, q)
               /\ loc' = loc
    /\ UNCHANGED <<tts_engine, kind, job, result, calls, nCore, nEngine, nCalls, cold>>

\* the arguments handler passes to synthesize_wave, lines 161-163
SynthArgs(j) ==
    [query |-> loc[j].audio_query, style_id |-> loc[j].speaker_id,
     enable_interrogative_upspeak |->
        Get(loc[j].job_input, "enable_interrogative_upspeak", Bool(TRUE))]

\* lines 160-164
SynthesizeWave(j, out) ==
    /\ Runs(j) /\ pc[j] = "synthesize"
    /\ IF tts_engine = None
       THEN /\ Caught(j, Err("AttributeError",
                             "'NoneType' object has no attribute 'synthesize_wave'"))
            /\ UNCHANGED <<loc, calls>>
       ELSE /\ Invoke(j, "synthesize_wave", tts_engine, SynthArgs(j))
            /\ IF out.ok
               THEN /\ loc' = [loc EXCEPT ![j].wave_data = out.v]
                    /\ Goto(j, "encode")
                    /\ exc' = exc
               ELSE /\ Caught(j, out)
                    /\ loc' = loc
    /\ UNCHANGED <<tts_engine, kind, job, result, nCore, nEngine, nCalls, cold>>

\* lines 173-183
Encode(j) ==
    /\ Runs(j) /\ pc[j] = "encode"
    /\ LET wav == SfWrite(loc[j].wave_data)
       IN IF wav.ok
          THEN Returns(j, SuccessResponse(B64Encode(wav.v))) /\ exc' = exc
          ELSE Caught(j, wav) /\ result' = result
    /\ UNCHANGED <<tts_engine, kind, job, loc, calls, nCore, nEngine, nCalls, cold>>

\* (an except clause that tries the synthesis again)
ExceptRetries(j) ==
    /\ Runs(j) /\ pc[j] = "except"
    /\ Goto(j, "accent_phrases")
    /\ exc' = [exc EXCEPT ![j] = NoneV]
    /\ UNCHANGED <<tts_engine, kind, job, loc, result, calls, nCore, nEngine, nCalls, cold>>

\* (an except clause that drops the engine handle)
ExceptResets(j) ==
    /\ Runs(j) /\ pc[j] = "except"
    /\ Returns(j, FailedResponse(exc[j]))
    /\ exc' = exc
    /\ tts_engine' = None
    /\ UNCHANGED <<kind, job, loc, calls, nCore, nEngine, nCalls, cold>>

\* (an except clause that answers with an empty success)
ExceptReturnsSuccess(j) ==
    /\ Runs(j) /\ pc[j] = "except"
    /\ Returns(j, SuccessResponse(B64Encode(<<"RIFF">>)))
    /\ exc' = exc
    /\ UNCHANGED <<tts_engine, kind, job, loc, calls, nCore, nEngine, nCalls, cold>>

\* lines 185-189
Except(j) ==
    /\ Runs(j) /\ pc[j] = "except"
    /\ Returns(j, FailedResponse(exc[j]))
    /\ exc' = exc
    /\ UNCHANGED <<tts_engine, kind, job, loc, calls, nCore, nEngine, nCalls, cold>>

\* the coroutine ends, by its return or by the exception: its frame is
\* dropped and the loop is free for the next task
Exit(j) ==
    /\ Runs(j) /\ pc[j] \in {"return", "raise"}
    /\ pc' = [pc EXCEPT ![j] = "idle"]
    /\ running' = 0
    /\ job' = [job EXCEPT ![j] = EmptyDict]
    /\ loc' = [loc EXCEPT ![j] = NoLocals]
    /\ exc' = [exc EXCEPT ![j] = NoneV]
    /\ result' = [result EXCEPT ![j] = NoneV]
    /\ calls' = [calls EXCEPT ![j] = << >>]
    /\ UNCHANGED <<tts_engine, kind, nCore, nEngine, nCalls, cold>>

AccentOutcomes == {Ok(p) : p \in PhraseChoices} \cup {Err("RuntimeError", m) : m \in ExcMsgs}
SynthOutcomes == {Ok(w) : w \in WaveChoices} \cup {Err("RuntimeError", m) : m \in ExcMsgs}

Next ==
    \E j \in Tasks :
        \/ \E k \in {"handler", "initialize_engine"} : Submit(j, k)
        \/ \E jb \in Jobs : Begin(j, jb)
        \/ Warmup(j)
        \/ InitCheck(j)
        \/ \E ok \in BOOLEAN : Core(j, ok)
        \/ \E outcome \in {"ok", "TypeError", "error"} : UserDict(j, outcome)
        \/ \E ok \in BOOLEAN : UserDictRetry(j, ok)
        \/ \E exists \in BOOLEAN, ok \in BOOLEAN : Preset(j, exists, ok)
        \/ \E ok \in BOOLEAN : Engine(j, ok)
        \/ GetInput(j)
        \/ SpeakerId(j)
        \/ \E out \in AccentOutcomes : CreateAccentPhrases(j, out)
        \/ BuildAudioQuery(j)
        \/ \E out \in SynthOutcomes : SynthesizeWave(j, out)
        \/ Encode(j)
        \/ Except(j)
        \/ Exit(j)

Spec == Init /\ [][Next]_vars

\* ------------------------------------------------------------- properties
Handler(j) == kind[j] = "handler" /\ pc[j] \notin {"idle", "scheduled"}
Ended(j) == pc[j] \in {"return", "raise"}
InputOf(j) == Get(job[j], "input", EmptyDict)
TextMissing(j) == ~Truthy(Get(InputOf(j), "text", NoneV))
Ops(j) == {calls[j][i].op : i \in 1..Len(calls[j])}
EngineOps == {"create_accent_phrases", "synthesize_wave"}
ManagerOps == {"UserDictManager", "PresetManager"}
InInit(j) == pc[j] \in {"core", "user_dict", "user_dict_retry", "preset", "engine"}
PastInit(j) ==
    pc[j] \in {"get_input", "speaker_id", "accent_phrases", "audio_query",
               "synthesize", "encode", "except", "return"}
SpeakerOk(j) == PyInt(Get(InputOf(j), "speaker_id", Num(10))).ok
ScalesOk(j) == FirstBadScale(InputOf(j), 1) = 0

\* C1: when several tasks call handler or initialize_engine while tts_engine
\* is None, one engine is constructed in all: no second TTSEngine instance is
\* ever made, every task that is past its initialization finds that one
\* instance in tts_engine, and every engine operation and every handle
\* returned by initialize_engine is of that instance.
C1_OneConstruction ==
    /\ nEngine <= 1
    /\ \A j \in Tasks :
        /\ PastInit(j) => nEngine = 1 /\ tts_engine = 1
        /\ \A i \in 1..Len(calls[j]) :
              calls[j][i].op \in EngineOps => calls[j][i].engine = 1
        /\ (kind[j] = "initialize_engine" /\ pc[j] = "return") => result[j].id = 1

\* two calls were made while tts_engine was None; the first has
\* constructed the engine and ended, the second has synthesized with it
\* without constructing anything
C1_Witness ==
    /\ nCalls = 2 /\ cold[1] /\ cold[2]
    /\ pc[1] = "idle"
    /\ Handler(2) /\ pc[2] = "return"
    /\ Ops(2) = EngineOps
    /\ nCore = 1 /\ nEngine = 1

\* C2: a job without a text, or with an empty one, ends by returning the
\* missing-text response, having invoked no collaborator at all: no
\* constructor of the initialization and no engine operation.
C2_MissingTextNoEngine ==
    \A j \in Tasks :
        (Handler(j) /\ TextMissing(j)) =>
            /\ calls[j] = << >>
            /\ Ended(j) => (pc[j] = "return" /\ result[j] = MissingTextResponse)

\* C3: handler never ends by raising: whatever fails, it returns.
C3_NeverRaises ==
    \A j \in Tasks : Handler(j) => pc[j] # "raise"

\* C4: an initialization that raises leaves tts_engine None, and a call
\* that finds tts_engine None runs the initialization from its first step,
\* the construction of CoreWrapper.
C4_FailedInitRetried ==
    [][\A j \in Tasks :
          /\ (InInit(j) /\ pc'[j] = "raise") => tts_engine' = None
          /\ (pc[j] = "warmup" /\ pc'[j] # "warmup" /\ tts_engine = None)
                => pc'[j] = "init_check"
          /\ (pc[j] = "init_check" /\ pc'[j] # "init_check" /\ tts_engine = None)
                => pc'[j] = "core"]_vars

\* an initialization has failed and a later one, started again from
\* CoreWrapper, has constructed the engine
C4_Witness ==
    /\ nCore = 2 /\ nEngine = 1 /\ tts_engine = 1
    /\ \E j \in Tasks : pc[j] = "get_input" /\ calls[j][1].op = "CoreWrapper"

\* C5: once tts_engine is set, no step changes it and no constructor of
\* the initialization is invoked again.
C5_EngineKept ==
    [][tts_engine # None =>
          /\ tts_engine' = tts_engine
          /\ nCore' = nCore
          /\ nEngine' = nEngine
          /\ \A j \in Tasks :
                (calls'[j] # calls[j] /\ calls'[j] # << >>)
                    => calls'[j][Len(calls'[j])].op \in EngineOps]_vars

\* after a successful initialization and a later job, a direct call of
\* initialize_engine returns the same instance without constructing
C5_Witness ==
    /\ nCalls = 3 /\ nCore = 1 /\ tts_engine = 1
    /\ \E j \in Tasks :
          /\ kind[j] = "initialize_engine" /\ pc[j] = "return"
          /\ ~cold[j]
          /\ calls[j] = << >>
          /\ result[j].id = tts_engine

IsSuccess(r) ==
    /\ "audio_base64" \in DOMAIN r
    /\ r.audio_base64.len > 0
    /\ "sampling_rate" \in DOMAIN r
    /\ r.sampling_rate = Num(SAMPLING_RATE * 10)
IsFailure(r) == "error" \in DOMAIN r /\ r.error.s # ""
LastOp(j) == calls[j][Len(calls[j])].op

\* C6: a job with a non-empty text and coercible fields ends by returning,
\* and what it returns is either a success response (non-empty audio_base64,
\* sampling_rate 24000) or a failure response with a non-empty error, never
\* both and never neither.
C6_SuccessOrFailure ==
    \A j \in Tasks :
        (Handler(j) /\ Ended(j) /\ ~TextMissing(j) /\ SpeakerOk(j) /\ ScalesOk(j)) =>
            /\ pc[j] = "return"
            /\ IsSuccess(result[j]) # IsFailure(result[j])

\* C7: the failure of a manager's constructor (UserDictManager or
\* PresetManager) does not end initialize_engine: no task is raising with a
\* manager's constructor as the last thing it invoked.
C7_ManagerFailureNotFatal ==
    \A j \in Tasks :
        (pc[j] = "raise" /\ calls[j] # << >>) => LastOp(j) \notin ManagerOps

\* C8: a job that has a text and a speaker_id that int() refuses ends by
\* returning an error response; handler does not raise.
C8_BadSpeakerReported ==
    \A j \in Tasks :
        (Handler(j) /\ Ended(j) /\ Truthy(loc[j].text) /\ ~SpeakerOk(j)) =>
            /\ pc[j] = "return"
            /\ "error" \in DOMAIN result[j]

\* C9: a job with a text, a usable speaker_id and a scale or length field
\* that float() refuses invokes neither create_accent_phrases nor
\* synthesize_wave, and what it returns is an error response.
C9_BadScaleBeforeEngine ==
    \A j \in Tasks :
        (Handler(j) /\ PastInit(j) /\ ~TextMissing(j) /\ SpeakerOk(j) /\ ~ScalesOk(j)) =>
            /\ Ops(j) \cap EngineOps = {}
            /\ pc[j] = "return" => "error" \in DOMAIN result[j]

\* C10: what handler returns to a job without a text is the record with
\* the one field error = "Missing 'text' in input"; every other response
\* with an error has exactly the fields error, a string, and status =
\* "failed"; a response with status = "success" has no error field.
C10_ResponseShapes ==
    \A j \in Tasks :
        (Handler(j) /\ pc[j] = "return") =>
            LET r == result[j] IN
            /\ TextMissing(j) =>
                  (DOMAIN r = {"error"} /\ r.error = Str(MissingText))
            /\ (~TextMissing(j) /\ "error" \in DOMAIN r) =>
                  /\ DOMAIN r = {"error", "status"}
                  /\ r.status = Str("failed")
                  /\ r.error = Str(exc[j].msg)
            /\ ("status" \in DOMAIN r /\ r.status = Str("success")) =>
                  "error" \notin DOMAIN r

\* a job whose synthesize_wave raised is returning the failure response
\* that carries the exception's message
C10_Witness ==
    \E j \in Tasks :
        /\ Handler(j) /\ pc[j] = "return"
        /\ calls[j] # << >> /\ LastOp(j) = "synthesize_wave"
        /\ result[j] = ("error" :> Str("engine error") @@ "status" :> Str("failed"))

Count(j, op) == Cardinality({i \in 1..Len(calls[j]) : calls[j][i].op = op})
Raising(j) == "type" \in DOMAIN exc[j]

\* C11: in one job create_accent_phrases and synthesize_wave are each
\* invoked at most once; when one of them raises, the operation that raised
\* is the last collaborator call of the job, and the job returns the
\* failure response with the exception's message.
C11_NoRetry ==
    \A j \in Tasks :
        Handler(j) =>
            /\ Count(j, "create_accent_phrases") <= 1
            /\ Count(j, "synthesize_wave") <= 1
            /\ (pc[j] \in {"except", "return"} /\ Raising(j)) =>
                  /\ exc[j].type = "RuntimeError" =>
                        /\ LastOp(j) \in EngineOps
                        /\ LastOp(j) = "create_accent_phrases"
                              => "synthesize_wave" \notin Ops(j)
                  /\ pc[j] = "return" =>
                        result[j] = ("error" :> Str(exc[j].msg) @@ "status" :> Str("failed"))

\* create_accent_phrases has raised: the job is returning the failure
\* response and synthesize_wave was not invoked
C11_Witness ==
    \E j \in Tasks :
        /\ Handler(j) /\ pc[j] = "return" /\ Raising(j)
        /\ exc[j] = Err("RuntimeError", "engine error")
        /\ calls[j] # << >> /\ LastOp(j) = "create_accent_phrases"
        /\ result[j] = FailedResponse(exc[j])

\* C12: from its validation on, no step of a job changes tts_engine or
\* constructs anything, whether the job ends with the missing-text error,
\* with a failure response or with success: the handle a job leaves is the
\* instance it validated and synthesized with.  A job that then finds
\* tts_engine set goes from line 116 to its validation without
\* initializing.
C12_FailureKeepsEngine ==
    [][\A j \in Tasks :
          /\ (Handler(j) /\ PastInit(j)) =>
                /\ tts_engine # None
                /\ tts_engine' = tts_engine
                /\ nCore' = nCore
                /\ nEngine' = nEngine
          /\ (pc[j] = "warmup" /\ pc'[j] # "warmup" /\ tts_engine # None)
                => pc'[j] = "get_input"]_vars

\* a job that found the engine initialized has ended with a synthesis
\* failure, and tts_engine is still the instance it called
C12_Witness ==
    \E j \in Tasks :
        /\ Handler(j) /\ pc[j] = "return" /\ ~cold[j]
        /\ Raising(j) /\ exc[j].type = "RuntimeError"
        /\ Ops(j) = EngineOps
        /\ "status" \in DOMAIN result[j] /\ result[j].status = Str("failed")
        /\ tts_engine = calls[j][1].engine

\* the value a field has after handler's reading of it: the caller's value,
\* coerced, when the key is present, and the default when it is absent
CarriedInt(inp, key, default) ==
    IF key \in DOMAIN inp THEN PyInt(inp[key]).v ELSE Num(default)
CarriedFloat(inp, key, default) ==
    IF key \in DOMAIN inp THEN PyFloat(inp[key]).v ELSE Num(default)
CarriedFlag(inp, key) == IF key \in DOMAIN inp THEN inp[key] ELSE Bool(TRUE)

QueryCarries(q, inp) ==
    /\ q.speedScale = CarriedFloat(inp, "speed_scale", 10)
    /\ q.pitchScale = CarriedFloat(inp, "pitch_scale", 0)
    /\ q.intonationScale = CarriedFloat(inp, "intonation_scale", 10)
    /\ q.volumeScale = CarriedFloat(inp, "volume_scale", 10)
    /\ q.prePhonemeLength = CarriedFloat(inp, "pre_phoneme_length", 1)
    /\ q.postPhonemeLength = CarriedFloat(inp, "post_phoneme_length", 1)
    /\ q.outputSamplingRate = Num(240000)
    /\ q.outputStereo = Bool(FALSE)

\* C13: what handler passes to create_accent_phrases, to AudioQuery and to
\* synthesize_wave is, for each field, the caller's coerced value when the
\* field is in the input and its default when it is not (speaker_id 1, speed,
\* intonation and volume scale 1.0, pitch scale 0.0, pre and post phoneme
\* length 0.1, both flags true); the query and the success response say
\* 24000 Hz, the query mono.
C13_DefaultsAndCarry ==
    \A j \in Tasks :
        Handler(j) =>
            /\ \A i \in 1..Len(calls[j]) :
                  LET c == calls[j][i] IN
                  /\ c.op = "create_accent_phrases" =>
                        /\ c.args.text = InputOf(j)["text"]
                        /\ c.args.style_id = CarriedInt(InputOf(j), "speaker_id", 10)
                        /\ c.args.enable_katakana_english
                              = CarriedFlag(InputOf(j), "enable_katakana_english")
                  /\ c.op = "synthesize_wave" =>
                        /\ QueryCarries(c.args.query, InputOf(j))
                        /\ c.args.style_id = CarriedInt(InputOf(j), "speaker_id", 10)
                        /\ c.args.enable_interrogative_upspeak
                              = CarriedFlag(InputOf(j), "enable_interrogative_upspeak")
            /\ pc[j] = "synthesize" => QueryCarries(loc[j].audio_query, InputOf(j))
            /\ (pc[j] = "return" /\ "sampling_rate" \in DOMAIN result[j])
                  => result[j].sampling_rate = Num(240000)

\* a job with a speaker_id of 2.7 and nothing else but its text has
\* synthesized: style 2 and every default
C13_Witness ==
    \E j \in Tasks :
        /\ Handler(j) /\ pc[j] = "encode"
        /\ InputOf(j) = ("text" :> Str("hello") @@ "speaker_id" :> Num(27))
        /\ LastOp(j) = "synthesize_wave"
        /\ calls[j][Len(calls[j])].args.style_id = Num(20)
        /\ calls[j][Len(calls[j])].args.query.pitchScale = Num(0)
        /\ calls[j][Len(calls[j])].args.query.prePhonemeLength = Num(1)
        /\ calls[j][Len(calls[j])].args.enable_interrogative_upspeak = Bool(TRUE)

ScaleKeySet == {ScaleKeys[i] : i \in 1..Len(ScaleKeys)}
OnlySpeedScale(inp) == DOMAIN inp \cap ScaleKeySet = {"speed_scale"}

Synthesized(j) ==
    /\ Handler(j) /\ pc[j] = "return"
    /\ calls[j] # << >> /\ LastOp(j) = "synthesize_wave"
    /\ ~(Raising(j) /\ exc[j].type = "RuntimeError")

\* the response carries the base64 of a 24000 Hz, 16-bit, mono container
\* of the samples
EncodesSamples(r, samples) ==
    /\ "audio_base64" \in DOMAIN r
    /\ LET bytes == r.audio_base64.of IN
       /\ Len(bytes) = 5 + Len(samples)
       /\ bytes[3] = 24000 /\ bytes[4] = 16 /\ bytes[5] = 1
       /\ \A i \in 1..Len(samples) : bytes[5 + i] = Pcm16(samples[i])
       /\ r.audio_base64.len = 4 * ((Len(bytes) + 2) \div 3)

AccentReturned(j) ==
    \/ pc[j] \in {"audio_query", "synthesize", "encode"}
    \/ /\ pc[j] \in {"except", "return"}
       /\ "create_accent_phrases" \in Ops(j)
       /\ ~(Raising(j) /\ exc[j].type = "RuntimeError"
            /\ LastOp(j) = "create_accent_phrases")

\* C16: when create_accent_phrases has returned no phrase (and the scale
\* fields are coercible), the job is not ended before the synthesis: past
\* line 155 it is either about to call synthesize_wave with a query whose
\* accent_phrases is that empty list, or it has called it with such a query.
C16_EmptyPhrasesPassThrough ==
    \A j \in Tasks :
        (/\ Handler(j) /\ AccentReturned(j) /\ pc[j] # "audio_query"
         /\ loc[j].accent_phrases = << >>
         /\ ScalesOk(j)) =>
            \/ pc[j] = "synthesize" /\ loc[j].audio_query.accent_phrases = << >>
            \/ /\ LastOp(j) = "synthesize_wave"
               /\ calls[j][Len(calls[j])].args.query.accent_phrases = << >>

\* a job whose decomposition was empty has synthesized and returns success
C16_Witness ==
    \E j \in Tasks :
        /\ Handler(j) /\ pc[j] = "return" /\ AccentReturned(j)
        /\ loc[j].accent_phrases = << >>
        /\ LastOp(j) = "synthesize_wave"
        /\ "status" \in DOMAIN result[j] /\ result[j].status = Str("success")

\* job j is inside its synthesize_wave call (lines 160-164)
InSynthesis(j) == Handler(j) /\ pc[j] = "synthesize"

\* job k is in flight: its task exists and has not ended
InFlight(k) == pc[k] # "idle"

\* C17 (as stated): synthesis is not serialized: while a job is inside
\* synthesize_wave, another job in flight that has not started can be started
\* by the loop, so that both come to be inside synthesize_wave.
C17_SynthesisOverlaps ==
    \A j, k \in Tasks :
        (j # k /\ InSynthesis(j) /\ pc[k] = "scheduled") =>
            ENABLED (\E jb \in Jobs : Begin(k, jb))

\* C17 (amended): handler takes no lock, but synthesize_wave is a synchronous
\* call inside the coroutine: while a job is inside it the task holds the
\* event loop, every other job in flight is still waiting to start, and no
\* two jobs are ever inside synthesize_wave at the same time.
C17_SynthesisSerialized ==
    \A j, k \in Tasks :
        (j # k /\ InSynthesis(j)) =>
            /\ running = j
            /\ pc[k] \in {"idle", "scheduled"}
            /\ ~InSynthesis(k)

\* two jobs in flight on an initialized engine, one inside synthesize_wave
C17_Witness ==
    \E j, k \in Tasks :
        /\ j # k /\ InSynthesis(j) /\ InFlight(k)
        /\ kind[k] = "handler" /\ tts_engine # None

\* the positions of handler after the warm-up and before its end
AfterWarmup ==
    {"get_input", "speaker_id", "accent_phrases", "audio_query", "synthesize", "encode"}

\* tts_engine refers to an engine that TTSEngine(core=core) has returned
EngineConstructed == tts_engine # None /\ tts_engine \in 1..nEngine

\* C18: a job past its warm-up finds a constructed engine in tts_engine;
\* every create_accent_phrases and synthesize_wave it has invoked was invoked
\* on that engine, and no job ends on the AttributeError of a call on None.
C18_EngineCallsOnEngine ==
    \A j \in Tasks :
        Handler(j) =>
            /\ pc[j] \in AfterWarmup => EngineConstructed
            /\ \A i \in 1..Len(calls[j]) :
                   calls[j][i].op \in EngineOps =>
                       /\ EngineConstructed
                       /\ calls[j][i].engine = tts_engine
            /\ pc[j] \in {"except", "raise"} => exc[j].type # "AttributeError"

\* after an initialization that raised, a later job has constructed the
\* engine itself and has called both engine operations on it
C18_Witness ==
    \E j \in Tasks :
        /\ Handler(j) /\ pc[j] = "encode"
        /\ nCore = 2 /\ nEngine = 1
        /\ calls[j][1].op = "CoreWrapper"
        /\ LastOp(j) = "synthesize_wave"
        /\ calls[j][Len(calls[j])].engine = 1

\* the response of line 179-183
StatusSuccess(r) == "status" \in DOMAIN r /\ r.status = Str("success")

\* C19: a job returns a response with status "success" only when it has
\* invoked create_accent_phrases once and then synthesize_wave once, nothing
\* after it, and no exception was raised in the job.
C19_SuccessNeedsSynthesis ==
    \A j \in Tasks :
        (Handler(j) /\ pc[j] = "return" /\ StatusSuccess(result[j])) =>
            /\ Count(j, "create_accent_phrases") = 1
            /\ Count(j, "synthesize_wave") = 1
            /\ \E a, b \in 1..Len(calls[j]) :
                   /\ a < b
                   /\ calls[j][a].op = "create_accent_phrases"
                   /\ calls[j][b].op = "synthesize_wave"
                   /\ b = Len(calls[j])
            /\ ~Raising(j)
            /\ IsSuccess(result[j])

\* a job on a warm engine returns success after exactly the two engine calls
C19_Witness ==
    \E j \in Tasks :
        /\ Handler(j) /\ pc[j] = "return" /\ StatusSuccess(result[j])
        /\ ~cold[j]
        /\ Len(calls[j]) = 2
        /\ calls[j][1].op = "create_accent_phrases"
        /\ calls[j][1].engine = tts_engine
        /\ calls[j][2].op = "synthesize_wave"

====
